---- MODULE Spec2Model ----
(***************************************************************************)
(* Model of checklist_manager.py: a Streamlit script run by several        *)
(* browser sessions (clients) against two shared Supabase tables,          *)
(* "templates" and "checklists".                                           *)
(*                                                                         *)
(* Granularity: every storage call (.execute()) is one atomic step of one  *)
(* client; the client-local computation before and after it, up to the     *)
(* next storage call, belongs to the same step.  Other clients interleave  *)
(* between any two storage calls of a script run.                          *)
(*                                                                         *)
(* Texts are sequences of tokens; the token " " is white space, so that    *)
(* str.strip() and the line filter of the template forms are computed.     *)
(* Optional values (None, a missing session_state key) are sequences of    *)
(* length 0 or 1.  Python index i is index i+1 here.                       *)
(* updated_at (a wall-clock stamp no code reads) and created_at (the       *)
(* order of the ids) are not stored in the modelled rows.                  *)
(***************************************************************************)
EXTENDS Integers, Sequences, FiniteSets, TLC

\* ---- bounds ----
MaxItems == 1        \* lines a user types into an "Items" text area
MaxSessions == 1     \* checklists ever inserted
MaxTemplates == 1    \* template rows ever inserted
MaxRaceItems == 4    \* items of the session two clients update at once (SpecRace)
MaxPollItems == 2    \* items of the session two clients view (SpecPoll)
MaxProgressItems == 4  \* items of the session whose progress is rendered (SpecProgress)

\* ---- program constants ----
refresh_countdown_start == 10   \* line 347 and line 351

Clients == {"c1", "c2"}
\* ---- texts ----
\* What each browser's user has typed into the sidebar's name field.
name_input == [c \in Clients |-> IF c = "c1" THEN <<" ", "Alice">> ELSE <<>>]
TemplateNameInputs == {<<>>, <<"Hotfire">>}
SessionNameInputs == {<<>>, <<"T1">>}
LineInputs == {<<>>, <<" ">>, <<" ", "fuel", " ">>}
CommentInputs == {<<>>, <<"ok">>}

Anonymous == <<"Anonymous">>
ManageTemplates == "Manage Templates"
StartNewChecklist == "Start New Checklist"
ViewActiveChecklists == "View Active Checklists"
Modes == {StartNewChecklist, ViewActiveChecklists, ManageTemplates}

RECURSIVE lstrip(_)
lstrip(t) == IF t # <<>> /\ Head(t) = " " THEN lstrip(Tail(t)) ELSE t

RECURSIVE rstrip(_)
rstrip(t) == IF t # <<>> /\ t[Len(t)] = " " THEN rstrip(SubSeq(t, 1, Len(t) - 1)) ELSE t

strip(t) == rstrip(lstrip(t))

\* A text area's value as the list of its lines: text.split("\n").
ItemsTexts == UNION {[1..k -> LineInputs] : k \in 1..MaxItems}

\* The empty string is the one text that is falsy.
Truthy(text) == text # <<<<>>>>

\* [line.strip() for line in text.split("\n") if line.strip()]
RECURSIVE ParseItems(_)
ParseItems(lines) ==
    IF lines = <<>> THEN <<>>
    ELSE IF strip(Head(lines)) # <<>>
         THEN <<strip(Head(lines))>> \o ParseItems(Tail(lines))
         ELSE ParseItems(Tail(lines))

\* "\n".join(items), as the list of lines of the resulting text
JoinItems(items) == IF items = <<>> THEN <<<<>>>> ELSE items

\* [v] * n
Repeat(v, n) == [i \in 1..n |-> v]

VARIABLES
    templates,      \* table "templates": set of rows [id, name, items, mandatory]
    nextTid,        \* id the next inserted template row gets
    checklists,     \* table "checklists": sequence of rows, row id = position
    user_name,      \* st.session_state.user_name, per client
    ss_mode,        \* st.session_state.mode, per client (<<>> = key absent)
    ss_selected,    \* st.session_state.selected_checklist_id (<<>> = key absent)
    confirm,        \* st.session_state["confirm_delete_<id>"], per client and id
    refresh_countdown,  \* st.session_state.refresh_countdown (<<>> = key absent)
    pc,             \* where each client's script run stands
    loc             \* the local variables of each client's script run

vars == <<templates, nextTid, checklists, user_name, ss_mode, ss_selected, confirm,
          refresh_countdown, pc, loc>>

NoLoc == [ selected_id |-> 0, index |-> 0, checked |-> <<>>, comment |-> <<>>,
           current |-> <<>>, session |-> <<>>,
           t_name |-> <<>>, t_items |-> <<>>, t_mandatory |-> <<>>, t_id |-> 0,
           session_name |-> <<>>, rest |-> <<>>,
           progress |-> <<>>, exception |-> FALSE ]

Init ==
    /\ templates = {}
    /\ nextTid = 1
    /\ checklists = <<>>
    /\ user_name = [c \in Clients |-> <<>>]
    /\ ss_mode = [c \in Clients |-> <<>>]
    /\ ss_selected = [c \in Clients |-> <<>>]
    /\ confirm = [c \in Clients |-> [t \in 1..MaxTemplates |-> <<>>]]
    /\ refresh_countdown = [c \in Clients |-> <<>>]
    /\ pc = [c \in Clients |-> "idle"]
    /\ loc = [c \in Clients |-> NoLoc]

\* ---- storage and pure helpers ----

\* get_templates(): the rows of the table; the dict is keyed by name.
get_templates(tbl) == tbl

\* The rows of a template dict in the order the page loops over them (by id).
RECURSIVE TemplateSeq(_)
TemplateSeq(tbl) ==
    IF tbl = {} THEN <<>>
    ELSE LET r == CHOOSE x \in tbl : \A y \in tbl : x.id <= y.id
         IN <<r>> \o TemplateSeq(tbl \ {r})

\* templates.upsert({name, items, mandatory}): overwrite the row of that name,
\* or insert a new row under a fresh id.
upsert(tbl, name, items, mandatory, newid) ==
    IF \E r \in tbl : r.name = name
    THEN {IF r.name = name THEN [r EXCEPT !.items = items, !.mandatory = mandatory] ELSE r : r \in tbl}
    ELSE tbl \cup {[id |-> newid, name |-> name, items |-> items, mandatory |-> mandatory]}

Inserts(tbl, name) == ~ \E r \in tbl : r.name = name

\* get_active_checklists(): ids of the rows with completed = False, newest first.
RECURSIVE ActiveFrom(_, _)
ActiveFrom(tbl, k) ==
    IF k = 0 THEN <<>>
    ELSE IF ~tbl[k].completed THEN <<k>> \o ActiveFrom(tbl, k - 1)
         ELSE ActiveFrom(tbl, k - 1)

get_active_checklists(tbl) == ActiveFrom(tbl, Len(tbl))

SeqToSet(s) == {s[i] : i \in 1..Len(s)}

\* start_checklist with "comments": [""] in place of [""] * n.
start_checklist_data_one_comment(session_name, template_name, items, mandatory) ==
    [ session_name |-> session_name,
      template_name |-> template_name,
      items |-> items,
      mandatory |-> mandatory,
      checked |-> Repeat(FALSE, Len(items)),
      comments |-> <<<<>>>>,
      user_names |-> Repeat(<<>>, Len(items)),
      completed |-> FALSE ]

\* start_checklist with "checked": template_data["mandatory"].
start_checklist_data_checked(session_name, template_name, items, mandatory) ==
    [ session_name |-> session_name,
      template_name |-> template_name,
      items |-> items,
      mandatory |-> mandatory,
      checked |-> mandatory,
      comments |-> Repeat(<<>>, Len(items)),
      user_names |-> Repeat(<<>>, Len(items)),
      completed |-> FALSE ]

\* The row start_checklist inserts.
start_checklist_data(session_name, template_name, items, mandatory) ==
    [ session_name |-> session_name,
      template_name |-> template_name,
      items |-> items,
      mandatory |-> mandatory,
      checked |-> Repeat(FALSE, Len(items)),
      comments |-> Repeat(<<>>, Len(items)),
      user_names |-> Repeat(<<>>, Len(items)),
      completed |-> FALSE ]

\* update_checklist clearing the attribution when an item is unchecked.
update_checklist_edit_clear(current, index, checked, comment, acting_user) ==
    LET c1 == IF checked # <<>>
              THEN [current EXCEPT !.checked[index] = checked[1],
                                   !.user_names[index] = IF checked[1] THEN acting_user ELSE <<>>]
              ELSE current
    IN IF comment # <<>> THEN [c1 EXCEPT !.comments[index] = comment[1]] ELSE c1

\* update_checklist storing the comment in current["items"][index].
update_checklist_edit_items(current, index, checked, comment, acting_user) ==
    LET c1 == IF checked # <<>>
              THEN [current EXCEPT !.checked[index] = checked[1],
                                   !.user_names[index] = IF checked[1] THEN acting_user ELSE @]
              ELSE current
    IN IF comment # <<>> THEN [c1 EXCEPT !.items[index] = comment[1]] ELSE c1

\* update_checklist, between its select and its update: the in-place edit of
\* the fetched row.
update_checklist_edit(current, index, checked, comment, acting_user) ==
    LET c1 == IF checked # <<>>
              THEN [current EXCEPT !.checked[index] = checked[1],
                                   !.user_names[index] = IF checked[1] THEN acting_user ELSE @]
              ELSE current
    IN IF comment # <<>> THEN [c1 EXCEPT !.comments[index] = comment[1]] ELSE c1

\* sum(session["checked"])
RECURSIVE CountTrue(_)
CountTrue(s) == IF s = <<>> THEN 0 ELSE (IF Head(s) THEN 1 ELSE 0) + CountTrue(Tail(s))

\* progress = checked_count / total, without the test of total.
progress_unguarded(session) == <<CountTrue(session.checked), Len(session.items)>>

\* progress = checked_count / total if total > 0 else 0, as <<numerator, denominator>>
progress(session) ==
    IF Len(session.items) > 0 THEN <<CountTrue(session.checked), Len(session.items)>>
    ELSE <<0, 1>>

\* complete_disabled = progress < 1.0
complete_disabled(session) == progress(session)[1] < progress(session)[2]

\* The sidebar's name, stripped, without the "Anonymous" of lines 78-79.
sidebar_user_name_stripped(txt) == strip(txt)

\* Lines 72-79: the sidebar's name, stripped, "Anonymous" when empty.
sidebar_user_name(txt) == IF strip(txt) # <<>> THEN strip(txt) ELSE Anonymous

\* Lines 166-170: the page a script run renders.
page_mode(c, radio) == IF ss_mode[c] # <<>> THEN ss_mode[c][1] ELSE radio

\* Lines 236-239: the confirmation flags of the given template ids exist.
init_delete_keys(flags, ids) ==
    [t \in DOMAIN flags |-> IF t \in ids /\ flags[t] = <<>> THEN <<FALSE>> ELSE flags[t]]

Ids(tseq, lo, hi) == {tseq[k].id : k \in lo..hi}

\* ---- Manage Templates page (lines 179-265) ----

\* The script run up to and excluding its first write to storage.
RunManageTemplates(c) ==
    /\ pc[c] \in {"idle", "rerun"}
    /\ \E radio \in Modes :
         /\ page_mode(c, radio) = ManageTemplates
         /\ user_name' = [user_name EXCEPT ![c] = sidebar_user_name(name_input[c])]
    /\ LET tseq == TemplateSeq(get_templates(templates))
           n == Len(tseq)
       IN \/ \* "Save Template" with a name and a text: lines 195-197
             \E name \in TemplateNameInputs, items_text \in ItemsTexts :
               /\ name # <<>> /\ Truthy(items_text)
               /\ pc' = [pc EXCEPT ![c] = "save_template"]
               /\ loc' = [loc EXCEPT ![c] = [NoLoc EXCEPT
                            !.t_name = name,
                            !.t_items = ParseItems(items_text),
                            !.t_mandatory = Repeat(TRUE, Len(ParseItems(items_text)))]]
               /\ UNCHANGED confirm
          \/ \* "Save Changes" on the k-th template: lines 218-231
             \E k \in 1..n :
               \E new_name \in TemplateNameInputs \cup {tseq[k].name},
                  new_items_text \in ItemsTexts \cup {JoinItems(tseq[k].items)} :
                 LET lines == ParseItems(new_items_text)
                 IN IF lines # <<>>
                    THEN /\ pc' = [pc EXCEPT ![c] = "save_changes"]
                         /\ loc' = [loc EXCEPT ![c] = [NoLoc EXCEPT
                                      !.t_name = new_name,
                                      !.t_items = lines,
                                      !.t_mandatory = Repeat(TRUE, Len(lines))]]
                         /\ confirm' = [confirm EXCEPT ![c] = init_delete_keys(@, Ids(tseq, 1, k - 1))]
                    ELSE /\ pc' = [pc EXCEPT ![c] = "idle"]
                         /\ loc' = [loc EXCEPT ![c] = NoLoc]
                         /\ confirm' = [confirm EXCEPT ![c] = init_delete_keys(@, Ids(tseq, 1, n))]
          \/ \* "Delete" on the k-th template: lines 242-245
             \E k \in 1..n :
               /\ confirm[c][tseq[k].id] # <<TRUE>>
               /\ confirm' = [confirm EXCEPT ![c] =
                                [init_delete_keys(@, Ids(tseq, 1, k - 1)) EXCEPT ![tseq[k].id] = <<TRUE>>]]
               /\ pc' = [pc EXCEPT ![c] = "rerun"]
               /\ loc' = [loc EXCEPT ![c] = NoLoc]
          \/ \* "Yes, Delete" on the k-th template: line 249
             \E k \in 1..n :
               /\ confirm[c][tseq[k].id] = <<TRUE>>
               /\ confirm' = [confirm EXCEPT ![c] = init_delete_keys(@, Ids(tseq, 1, k - 1))]
               /\ pc' = [pc EXCEPT ![c] = "delete_template"]
               /\ loc' = [loc EXCEPT ![c] = [NoLoc EXCEPT
                            !.t_id = tseq[k].id,
                            !.rest = [j \in 1..(n - k) |-> tseq[k + j].id]]]
          \/ \* "Cancel" on the k-th template: lines 261-263
             \E k \in 1..n :
               /\ confirm[c][tseq[k].id] = <<TRUE>>
               /\ confirm' = [confirm EXCEPT ![c] =
                                [init_delete_keys(@, Ids(tseq, 1, k - 1)) EXCEPT ![tseq[k].id] = <<FALSE>>]]
               /\ pc' = [pc EXCEPT ![c] = "rerun"]
               /\ loc' = [loc EXCEPT ![c] = NoLoc]
          \/ \* no button pressed: the page renders to its end
             /\ confirm' = [confirm EXCEPT ![c] = init_delete_keys(@, Ids(tseq, 1, n))]
             /\ pc' = [pc EXCEPT ![c] = "idle"]
             /\ loc' = [loc EXCEPT ![c] = NoLoc]
    /\ UNCHANGED <<templates, nextTid, checklists, ss_mode, ss_selected, refresh_countdown>>

\* save_template(name, items, mandatory), then st.rerun(): lines 198-200
SaveTemplate(c) ==
    /\ pc[c] = "save_template"
    /\ Inserts(templates, loc[c].t_name) => nextTid <= MaxTemplates
    /\ templates' = upsert(templates, loc[c].t_name, loc[c].t_items, loc[c].t_mandatory, nextTid)
    /\ nextTid' = IF Inserts(templates, loc[c].t_name) THEN nextTid + 1 ELSE nextTid
    /\ pc' = [pc EXCEPT ![c] = "rerun"]
    /\ loc' = [loc EXCEPT ![c] = NoLoc]
    /\ UNCHANGED <<checklists, user_name, ss_mode, ss_selected, confirm, refresh_countdown>>

\* The upsert of "Save Changes", then st.rerun(): lines 223-229
SaveChanges(c) ==
    /\ pc[c] = "save_changes"
    /\ Inserts(templates, loc[c].t_name) => nextTid <= MaxTemplates
    /\ templates' = upsert(templates, loc[c].t_name, loc[c].t_items, loc[c].t_mandatory, nextTid)
    /\ nextTid' = IF Inserts(templates, loc[c].t_name) THEN nextTid + 1 ELSE nextTid
    /\ pc' = [pc EXCEPT ![c] = "rerun"]
    /\ loc' = [loc EXCEPT ![c] = NoLoc]
    /\ UNCHANGED <<checklists, user_name, ss_mode, ss_selected, confirm, refresh_countdown>>

\* The delete whose failure branch shows the error and leaves the flag alone.
DeleteTemplate_keep_flag(c) ==
    /\ pc[c] = "delete_template"
    /\ LET data == {r \in templates : r.id = loc[c].t_id}
       IN /\ templates' = templates \ data
          /\ IF data # {}
             THEN /\ confirm' = [confirm EXCEPT ![c][loc[c].t_id] = <<>>]
                  /\ pc' = [pc EXCEPT ![c] = "rerun"]
             ELSE /\ confirm' = [confirm EXCEPT ![c] =
                                   init_delete_keys(@, SeqToSet(loc[c].rest))]
                  /\ pc' = [pc EXCEPT ![c] = "idle"]
    /\ loc' = [loc EXCEPT ![c] = NoLoc]
    /\ UNCHANGED <<nextTid, checklists, user_name, ss_mode, ss_selected, refresh_countdown>>

\* templates.delete().eq("id", template_id) and what follows it: lines 250-263
DeleteTemplate(c) ==
    /\ pc[c] = "delete_template"
    /\ LET data == {r \in templates : r.id = loc[c].t_id}
       IN /\ templates' = templates \ data
          /\ IF data # {}
             THEN /\ confirm' = [confirm EXCEPT ![c][loc[c].t_id] = <<>>]
                  /\ pc' = [pc EXCEPT ![c] = "rerun"]
             ELSE /\ confirm' = [confirm EXCEPT ![c] =
                                   init_delete_keys([@ EXCEPT ![loc[c].t_id] = <<FALSE>>],
                                                    SeqToSet(loc[c].rest))]
                  /\ pc' = [pc EXCEPT ![c] = "idle"]
    /\ loc' = [loc EXCEPT ![c] = NoLoc]
    /\ UNCHANGED <<nextTid, checklists, user_name, ss_mode, ss_selected, refresh_countdown>>

\* ---- Start New Checklist page (lines 267-309) ----

RunStartNewChecklist(c) ==
    /\ pc[c] \in {"idle", "rerun"}
    /\ \E radio \in Modes :
         /\ page_mode(c, radio) = StartNewChecklist
         /\ user_name' = [user_name EXCEPT ![c] = sidebar_user_name(name_input[c])]
    /\ LET tpls == get_templates(templates)
       IN \/ \* "Start Checklist" with a session name: lines 300-302
             \E t \in tpls, session_name \in SessionNameInputs :
               /\ session_name # <<>>
               /\ Len(checklists) + Cardinality({d \in Clients : pc[d] = "insert"}) < MaxSessions
               /\ pc' = [pc EXCEPT ![c] = "insert"]
               /\ loc' = [loc EXCEPT ![c] = [NoLoc EXCEPT
                            !.session_name = session_name,
                            !.t_name = t.name,
                            !.t_items = t.items,
                            !.t_mandatory = t.mandatory]]
          \/ \* no templates, or the button not pressed
             /\ pc' = [pc EXCEPT ![c] = "idle"]
             /\ loc' = [loc EXCEPT ![c] = NoLoc]
    /\ UNCHANGED <<templates, nextTid, checklists, ss_mode, ss_selected, confirm, refresh_countdown>>

\* start_checklist's insert and lines 303-307
StartChecklist(c) ==
    /\ pc[c] = "insert"
    /\ checklists' = Append(checklists,
                            start_checklist_data(loc[c].session_name, loc[c].t_name,
                                                 loc[c].t_items, loc[c].t_mandatory))
    /\ ss_mode' = [ss_mode EXCEPT ![c] = <<ViewActiveChecklists>>]
    /\ ss_selected' = [ss_selected EXCEPT ![c] = <<Len(checklists) + 1>>]
    /\ pc' = [pc EXCEPT ![c] = "rerun"]
    /\ loc' = [loc EXCEPT ![c] = NoLoc]
    /\ UNCHANGED <<templates, nextTid, user_name, confirm, refresh_countdown>>

\* ---- View Active Checklists page (lines 311-433) ----

\* The item loop from item `from` on and the complete button, on the session
\* fetched at the top of the run: what the run does next (lines 382-433).
RenderItems(c, selected_id, session, from) ==
    \/ \* checkbox i differs from the fetched value: lines 400-401
       \E i \in from..Len(session.items) :
         /\ pc' = [pc EXCEPT ![c] = "update_select"]
         /\ loc' = [loc EXCEPT ![c] = [NoLoc EXCEPT
                      !.selected_id = selected_id,
                      !.index = i,
                      !.checked = <<~session.checked[i]>>]]
    \/ \* comment field i is shown and differs from the fetched value: lines 405-414
       \E i \in from..Len(session.items), comment \in CommentInputs :
         /\ session.checked[i] \/ session.comments[i] # <<>>
         /\ comment # session.comments[i]
         /\ pc' = [pc EXCEPT ![c] = "update_select"]
         /\ loc' = [loc EXCEPT ![c] = [NoLoc EXCEPT
                      !.selected_id = selected_id,
                      !.index = i,
                      !.comment = <<comment>>,
                      !.session = <<session>>]]
    \/ \* "Mark as Complete & Archive" pressed: lines 423-430
       /\ ~complete_disabled(session)
       /\ pc' = [pc EXCEPT ![c] = "complete_update"]
       /\ loc' = [loc EXCEPT ![c] = [NoLoc EXCEPT !.selected_id = selected_id]]
    \/ \* nothing pressed: the run ends
       /\ pc' = [pc EXCEPT ![c] = "idle"]
       /\ loc' = [loc EXCEPT ![c] = NoLoc]

\* Lines 321-329: the session the selectbox returns.
selectbox_choices(active, preselected_id) ==
    IF preselected_id = <<>> THEN SeqToSet(active)
    ELSE IF preselected_id[1] \in SeqToSet(active) THEN {preselected_id[1]}
    ELSE {active[1]}

\* The script run up to and excluding its first write to storage.  The
\* refresh countdown of lines 346-352 is not counted: a run may end in
\* st.rerun() before the items are rendered, as it does when the count
\* reaches 0 or "Refresh" is pressed; refresh_countdown is left alone here
\* and counted in view_run below.
RunViewActiveChecklists(c) ==
    /\ pc[c] \in {"idle", "rerun"}
    /\ \E radio \in Modes :
         /\ page_mode(c, radio) = ViewActiveChecklists
         /\ user_name' = [user_name EXCEPT ![c] = sidebar_user_name(name_input[c])]
    /\ LET active_checklists == get_active_checklists(checklists)
           preselected_id == ss_selected[c]
       IN IF active_checklists = <<>>
          THEN /\ \E refresh \in BOOLEAN :
                    pc' = [pc EXCEPT ![c] = IF refresh THEN "rerun" ELSE "idle"]
               /\ loc' = [loc EXCEPT ![c] = NoLoc]
               /\ UNCHANGED ss_selected
          ELSE \E selected_id \in selectbox_choices(active_checklists, preselected_id) :
                 /\ ss_selected' = [ss_selected EXCEPT ![c] = <<>>]
                 /\ \/ /\ pc' = [pc EXCEPT ![c] = "rerun"]
                       /\ loc' = [loc EXCEPT ![c] = NoLoc]
                    \/ RenderItems(c, selected_id, checklists[selected_id], 1)
    /\ UNCHANGED <<templates, nextTid, checklists, ss_mode, confirm, refresh_countdown>>

\* update_checklist's select and its in-place edit: lines 130-140
UpdateSelect(c) ==
    /\ pc[c] = "update_select"
    /\ loc' = [loc EXCEPT ![c].current =
                 <<update_checklist_edit(checklists[loc[c].selected_id], loc[c].index,
                                         loc[c].checked, loc[c].comment, user_name[c])>>]
    /\ pc' = [pc EXCEPT ![c] = "update_write"]
    /\ UNCHANGED <<templates, nextTid, checklists, user_name, ss_mode, ss_selected, confirm, refresh_countdown>>

\* update_checklist sending the update one column at a time and stopping
\* after the first: only "checked" is stored.
UpdateWrite_columns(c) ==
    /\ pc[c] = "update_write"
    /\ checklists' = [checklists EXCEPT
                        ![loc[c].selected_id].checked = loc[c].current[1].checked]
    /\ IF loc[c].checked # <<>>
       THEN /\ pc' = [pc EXCEPT ![c] = "rerun"]
            /\ loc' = [loc EXCEPT ![c] = NoLoc]
       ELSE RenderItems(c, loc[c].selected_id, loc[c].session[1], loc[c].index + 1)
    /\ UNCHANGED <<templates, nextTid, user_name, ss_mode, ss_selected, confirm, refresh_countdown>>

\* update_checklist's whole-row update (line 142) and what the caller does
\* next: st.rerun() after a checkbox (line 402), the rest of the item loop
\* after a comment (line 414).
UpdateWrite(c) ==
    /\ pc[c] = "update_write"
    /\ checklists' = [checklists EXCEPT ![loc[c].selected_id] = loc[c].current[1]]
    /\ IF loc[c].checked # <<>>
       THEN /\ pc' = [pc EXCEPT ![c] = "rerun"]
            /\ loc' = [loc EXCEPT ![c] = NoLoc]
       ELSE RenderItems(c, loc[c].selected_id, loc[c].session[1], loc[c].index + 1)
    /\ UNCHANGED <<templates, nextTid, user_name, ss_mode, ss_selected, confirm, refresh_countdown>>

\* checklists.update({"completed": True}), then st.rerun(): lines 431-433
CompleteUpdate(c) ==
    /\ pc[c] = "complete_update"
    /\ checklists' = [checklists EXCEPT ![loc[c].selected_id].completed = TRUE]
    /\ pc' = [pc EXCEPT ![c] = "rerun"]
    /\ loc' = [loc EXCEPT ![c] = NoLoc]
    /\ UNCHANGED <<templates, nextTid, user_name, ss_mode, ss_selected, confirm, refresh_countdown>>

Next ==
    \E c \in Clients :
        \/ RunManageTemplates(c)
        \/ SaveTemplate(c)
        \/ SaveChanges(c)
        \/ DeleteTemplate(c)
        \/ RunStartNewChecklist(c)
        \/ StartChecklist(c)
        \/ RunViewActiveChecklists(c)
        \/ UpdateSelect(c)
        \/ UpdateWrite(c)
        \/ CompleteUpdate(c)

Spec == Init /\ [][Next]_vars

\* ---- Two concurrent checks on a fresh session ----

\* A session just created from a template of n >= 2 items; each of the two
\* clients, under its own name, has ticked one checkbox, at different items,
\* and stands before update_checklist's select.
InitRace ==
    \E n \in 2..MaxRaceItems, i \in 1..MaxRaceItems, j \in 1..MaxRaceItems :
      /\ i <= n /\ j <= n /\ i # j
      /\ templates = {[id |-> 1, name |-> <<"Hotfire">>,
                       items |-> Repeat(<<"fuel">>, n), mandatory |-> Repeat(TRUE, n)]}
      /\ nextTid = 2
      /\ checklists = <<start_checklist_data(<<"T1">>, <<"Hotfire">>,
                                             Repeat(<<"fuel">>, n), Repeat(TRUE, n))>>
      /\ user_name = [c \in Clients |-> sidebar_user_name(name_input[c])]
      /\ ss_mode = [c \in Clients |-> IF c = "c1" THEN <<ViewActiveChecklists>> ELSE <<>>]
      /\ ss_selected = [c \in Clients |-> <<>>]
      /\ confirm = [c \in Clients |-> [t \in 1..MaxTemplates |-> <<>>]]
      /\ refresh_countdown = [c \in Clients |-> <<>>]
      /\ pc = [c \in Clients |-> "update_select"]
      /\ loc = [c \in Clients |-> [NoLoc EXCEPT !.selected_id = 1,
                                                !.index = IF c = "c1" THEN i ELSE j,
                                                !.checked = <<TRUE>>]]

NextRace == \E c \in Clients : UpdateSelect(c) \/ UpdateWrite(c)

SpecRace == InitRace /\ [][NextRace]_vars

\* ---- storage calls that fail ----

\* A storage call of update_checklist raises (.single() finds no row, the
\* request fails): nothing in lines 129-142 catches it, so the call writes
\* nothing more and the script run ends with the exception.
UpdateFails(c) ==
    /\ pc[c] \in {"update_select", "update_write"}
    /\ pc' = [pc EXCEPT ![c] = "idle"]
    /\ loc' = [loc EXCEPT ![c] = [NoLoc EXCEPT !.exception = TRUE]]
    /\ UNCHANGED <<templates, nextTid, checklists, user_name, ss_mode, ss_selected, confirm,
                   refresh_countdown>>

NextFail == Next \/ \E c \in Clients : UpdateFails(c)

SpecFail == Init /\ [][NextFail]_vars

\* ---- the view page with its refresh countdown ----

\* Lines 346-352 on the stored count v: the count after the run, and whether
\* the run ends in st.rerun() there.
countdown(v) ==
    LET start == IF v = <<>> THEN refresh_countdown_start ELSE v[1]
    IN IF start - 1 <= 0 THEN [value |-> refresh_countdown_start, rerun |-> TRUE]
       ELSE [value |-> start - 1, rerun |-> FALSE]

\* A run of the View Active Checklists page in which no checkbox, comment
\* or complete button is touched (lines 311-433); `refresh` says whether the
\* run was started by pressing "Refresh".  loc keeps what the run has put on
\* the page: the fetched session and the progress computed from it.
view_run(c, refresh) ==
    /\ \E radio \in Modes :
         /\ page_mode(c, radio) = ViewActiveChecklists
         /\ user_name' = [user_name EXCEPT ![c] = sidebar_user_name(name_input[c])]
    /\ LET active_checklists == get_active_checklists(checklists)
           preselected_id == ss_selected[c]
       IN IF active_checklists = <<>>
          THEN /\ pc' = [pc EXCEPT ![c] = IF refresh THEN "rerun" ELSE "idle"]
               /\ loc' = [loc EXCEPT ![c] = NoLoc]
               /\ UNCHANGED <<ss_selected, refresh_countdown>>
          ELSE \E selected_id \in selectbox_choices(active_checklists, preselected_id) :
                 LET session == checklists[selected_id]
                     count == countdown(refresh_countdown[c])
                 IN /\ ss_selected' = [ss_selected EXCEPT ![c] = <<>>]
                    /\ refresh_countdown' = [refresh_countdown EXCEPT ![c] = <<count.value>>]
                    /\ IF count.rerun \/ refresh
                       THEN /\ pc' = [pc EXCEPT ![c] = "rerun"]
                            /\ loc' = [loc EXCEPT ![c] = NoLoc]
                       ELSE /\ pc' = [pc EXCEPT ![c] = "idle"]
                            /\ loc' = [loc EXCEPT ![c] = [NoLoc EXCEPT
                                         !.selected_id = selected_id,
                                         !.session = <<session>>,
                                         !.progress = progress(session)]]
    /\ UNCHANGED <<templates, nextTid, checklists, ss_mode, confirm>>

\* The run st.rerun() has asked for: it starts by itself, no widget is touched.
AutoRun(c) == pc[c] = "rerun" /\ view_run(c, FALSE)

\* A run of a page at rest.  Streamlit runs the script when the user touches
\* a widget (here the sidebar or "Refresh"); the script holds no timer.
UserRun(c) == pc[c] = "idle" /\ \E refresh \in BOOLEAN : view_run(c, refresh)

\* A session of n items with any of them checked, two clients at rest.
InitProgress ==
    \E n \in 0..MaxProgressItems :
      \E ck \in [1..n -> BOOLEAN] :
        /\ templates = {[id |-> 1, name |-> <<"Hotfire">>,
                         items |-> Repeat(<<"fuel">>, n), mandatory |-> Repeat(TRUE, n)]}
        /\ nextTid = 2
        /\ checklists = <<[start_checklist_data(<<"T1">>, <<"Hotfire">>,
                                                Repeat(<<"fuel">>, n), Repeat(TRUE, n))
                            EXCEPT !.checked = [i \in 1..n |-> ck[i]],
                                   !.user_names = [i \in 1..n |->
                                                     IF ck[i] THEN Anonymous ELSE <<>>]]>>
        /\ user_name = [c \in Clients |-> <<>>]
        /\ ss_mode = [c \in Clients |-> <<>>]
        /\ ss_selected = [c \in Clients |-> <<>>]
        /\ confirm = [c \in Clients |-> [t \in 1..MaxTemplates |-> <<>>]]
        /\ refresh_countdown = [c \in Clients |-> <<>>]
        /\ pc = [c \in Clients |-> "idle"]
        /\ loc = [c \in Clients |-> NoLoc]

NextProgress == \E c \in Clients : UserRun(c) \/ AutoRun(c)

SpecProgress == InitProgress /\ [][NextProgress]_vars

\* A fresh session of n items; client c1 has ticked one checkbox and stands
\* before update_checklist's select, client c2 is at rest.  No further
\* checkbox, comment or complete button is touched.
InitPoll ==
    \E n \in 1..MaxPollItems, i \in 1..MaxPollItems :
      /\ i <= n
      /\ templates = {[id |-> 1, name |-> <<"Hotfire">>,
                       items |-> Repeat(<<"fuel">>, n), mandatory |-> Repeat(TRUE, n)]}
      /\ nextTid = 2
      /\ checklists = <<start_checklist_data(<<"T1">>, <<"Hotfire">>,
                                             Repeat(<<"fuel">>, n), Repeat(TRUE, n))>>
      /\ user_name = [c \in Clients |-> IF c = "c1" THEN sidebar_user_name(name_input[c])
                                          ELSE <<>>]
      /\ ss_mode = [c \in Clients |-> <<>>]
      /\ ss_selected = [c \in Clients |-> <<>>]
      /\ confirm = [c \in Clients |-> [t \in 1..MaxTemplates |-> <<>>]]
      /\ refresh_countdown = [c \in Clients |-> IF c = "c1"
                                                  THEN <<refresh_countdown_start - 1>>
                                                  ELSE <<>>]
      /\ pc = [c \in Clients |-> IF c = "c1" THEN "update_select" ELSE "idle"]
      /\ loc = [c \in Clients |-> IF c = "c1"
                                    THEN [NoLoc EXCEPT !.selected_id = 1, !.index = i,
                                                       !.checked = <<TRUE>>]
                                    ELSE NoLoc]

NextPoll == \E c \in Clients : UserRun(c) \/ AutoRun(c) \/ UpdateSelect(c) \/ UpdateWrite(c)

\* st.rerun() starts the next run and a storage call returns; nothing starts
\* a run of a page at rest, so UserRun has no fairness.
SpecPoll ==
    /\ InitPoll
    /\ [][NextPoll]_vars
    /\ \A c \in Clients : /\ WF_vars(AutoRun(c))
                            /\ WF_vars(UpdateSelect(c))
                            /\ WF_vars(UpdateWrite(c))

\* ---- Properties ----

SessionIds == 1..Len(checklists)

AllMandatoryChecked(row) == \A i \in 1..Len(row.items) : row.mandatory[i] => row.checked[i]

\* The step is client c leaving position p.
Leaves(c, p) == pc[c] = p /\ pc'[c] # p

\* C1: under SpecRace, once both concurrent check calls have finished, two
\* different items of the session are checked, one attributed to each of the
\* two users.
C1_NoLostUpdate ==
    (\A c \in Clients : pc[c] = "rerun") =>
        \E i \in 1..Len(checklists[1].items), j \in 1..Len(checklists[1].items) :
            /\ i # j
            /\ checklists[1].checked[i] /\ checklists[1].user_names[i] = user_name["c1"]
            /\ checklists[1].checked[j] /\ checklists[1].user_names[j] = user_name["c2"]

\* C2: the write that sets completed = True is applied only to a stored row
\* all of whose mandatory items are checked.
C2_CompletionGated ==
    [][\A c \in Clients :
         Leaves(c, "complete_update") => AllMandatoryChecked(checklists[loc[c].selected_id])]_vars

\* C3: no step changes the checked, comments or user_names arrays of a
\* stored row whose completed flag is true.
C3_UpdateOnCompletedRejected ==
    [][\A id \in SessionIds :
         checklists[id].completed =>
            /\ checklists'[id].checked = checklists[id].checked
            /\ checklists'[id].comments = checklists[id].comments
            /\ checklists'[id].user_names = checklists[id].user_names]_vars

\* C4: a stored completed flag that is true stays true, and the row is not
\* among the rows get_active_checklists returns afterwards.
C4_CompletionPermanent ==
    [][\A id \in SessionIds :
         checklists[id].completed =>
            /\ checklists'[id].completed
            /\ id \notin SeqToSet(get_active_checklists(checklists'))]_vars

\* C5: the five per-item arrays of every stored row have the same length.
C5_ParallelArrays ==
    \A id \in SessionIds :
        /\ Len(checklists[id].mandatory) = Len(checklists[id].items)
        /\ Len(checklists[id].checked) = Len(checklists[id].items)
        /\ Len(checklists[id].comments) = Len(checklists[id].items)
        /\ Len(checklists[id].user_names) = Len(checklists[id].items)

\* A row of at least one item that was checked, commented and completed.
C5_Witness ==
    \E id \in SessionIds :
        /\ Len(checklists[id].items) >= 1
        /\ checklists[id].checked[1]
        /\ checklists[id].comments[1] # <<>>
        /\ checklists[id].completed

\* C6: update_checklist(checked=True) by user U stores checked[i] = true and
\* user_names[i] = U; update_checklist(checked=False) keeps in the row it
\* fetched the attribution stored at that moment, and stores that row with
\* checked[i] = false, so an uncheck that follows a check by U leaves U.
C6_Attribution ==
    [][\A c \in Clients :
         LET id == loc[c].selected_id
             i == loc[c].index
         IN /\ (Leaves(c, "update_select") /\ loc[c].checked = <<FALSE>>) =>
                  /\ loc'[c].current[1].checked[i] = FALSE
                  /\ loc'[c].current[1].user_names[i] = checklists[id].user_names[i]
            /\ (Leaves(c, "update_write") /\ loc[c].checked = <<TRUE>>) =>
                  /\ checklists'[id].checked[i] = TRUE
                  /\ checklists'[id].user_names[i] = user_name[c]
            /\ (Leaves(c, "update_write") /\ loc[c].checked = <<FALSE>>) =>
                  /\ checklists'[id].checked[i] = FALSE
                  /\ checklists'[id].user_names[i] = loc[c].current[1].user_names[i]]_vars

\* An item checked by Alice and unchecked afterwards: the attribution stays.
C6_Witness ==
    \E id \in SessionIds : \E i \in 1..Len(checklists[id].items) :
        /\ ~checklists[id].checked[i]
        /\ checklists[id].user_names[i] = <<"Alice">>

\* C7: the write of an update_checklist call that carries only a comment
\* leaves the stored checked and user_names arrays as they were before it.
C7_CommentFrame ==
    [][\A c \in Clients :
         (Leaves(c, "update_write") /\ loc[c].checked = <<>>) =>
            /\ checklists'[loc[c].selected_id].checked = checklists[loc[c].selected_id].checked
            /\ checklists'[loc[c].selected_id].user_names = checklists[loc[c].selected_id].user_names]_vars

\* C8: for every active stored row whose mandatory items are all checked
\* (a row without mandatory items included), the complete button of a client
\* that fetches the row is enabled.
C8_CompletionAvailable ==
    \A id \in SessionIds :
        (~checklists[id].completed /\ AllMandatoryChecked(checklists[id]))
            => ~complete_disabled(checklists[id])

\* C9: "Start Checklist" takes the arrays of a stored template, and its one
\* insert adds one whole row: those items and mandatory flags, checked all
\* false, comments and user_names all empty, of the items' length, not
\* completed; the rows already stored are untouched.
C9_SessionCreation ==
    [][\A c \in Clients :
         /\ (pc[c] # "insert" /\ pc'[c] = "insert") =>
               \E t \in templates : /\ t.name = loc'[c].t_name
                                    /\ t.items = loc'[c].t_items
                                    /\ t.mandatory = loc'[c].t_mandatory
         /\ Leaves(c, "insert") =>
               LET n == Len(loc[c].t_items)
                   new == checklists'[Len(checklists')]
               IN /\ Len(checklists') = Len(checklists) + 1
                  /\ SubSeq(checklists', 1, Len(checklists)) = checklists
                  /\ new.session_name = loc[c].session_name
                  /\ new.template_name = loc[c].t_name
                  /\ new.items = loc[c].t_items
                  /\ new.mandatory = loc[c].t_mandatory
                  /\ Len(new.checked) = n /\ \A i \in 1..n : new.checked[i] = FALSE
                  /\ Len(new.comments) = n /\ \A i \in 1..n : new.comments[i] = <<>>
                  /\ Len(new.user_names) = n /\ \A i \in 1..n : new.user_names[i] = <<>>
                  /\ new.completed = FALSE]_vars

\* A client has just inserted a session of at least one item.
C9_Witness ==
    \E c \in Clients :
        /\ pc[c] = "rerun"
        /\ ss_selected[c] = <<Len(checklists)>>
        /\ Len(checklists[Len(checklists)].items) >= 1

\* C10: no step changes the items or mandatory array of a stored row.
C10_SnapshotImmutable ==
    [][\A id \in SessionIds :
         /\ checklists'[id].items = checklists[id].items
         /\ checklists'[id].mandatory = checklists[id].mandatory]_vars

\* A commented, completed session whose template has since been deleted, or
\* overwritten with other items.
C10_Witness ==
    \E id \in SessionIds :
        /\ Len(checklists[id].items) >= 1
        /\ checklists[id].comments[1] # <<>>
        /\ checklists[id].completed
        /\ ~ \E t \in templates : /\ t.name = checklists[id].template_name
                                  /\ t.items = checklists[id].items

\* C11: every stored session row holds at least one item (a session is
\* never created from a template with zero items).
C11_NoEmptySession ==
    \A id \in SessionIds : Len(checklists[id].items) > 0

\* C12: an update_checklist call changes storage in at most one step, its
\* update: the select writes nothing and hands on the fetched row changed at
\* the one index only; the update replaces the stored row by that whole
\* record in one write; a call that fails at either storage call leaves the
\* table exactly as it was.
C12_NoPartialMutation ==
    [][\A c \in Clients :
         LET id == loc[c].selected_id
             i == loc[c].index
         IN /\ Leaves(c, "update_select") => checklists' = checklists
            /\ (Leaves(c, "update_select") /\ ~loc'[c].exception) =>
                  LET row == checklists[id]
                      cur == loc'[c].current[1]
                  IN /\ pc'[c] = "update_write"
                     /\ [cur EXCEPT !.checked[i] = row.checked[i],
                                    !.comments[i] = row.comments[i],
                                    !.user_names[i] = row.user_names[i]] = row
            /\ Leaves(c, "update_write") =>
                  IF loc'[c].exception
                  THEN checklists' = checklists
                  ELSE checklists' = [checklists EXCEPT ![id] = loc[c].current[1]]]_vars

\* One client's call has failed while the other's check is stored.
C12_Witness ==
    \E c \in Clients, d \in Clients, id \in SessionIds :
        /\ loc[c].exception
        /\ pc[d] = "rerun"
        /\ checklists[id].checked = <<TRUE>>
        /\ checklists[id].user_names = <<user_name[d]>>

\* C13: the script run in which a client's update_checklist call has stored
\* its row ends there in st.rerun(), so that the client fetches again before
\* it renders another item or the complete button.
C13_RefreshAfterWrite ==
    [][\A c \in Clients :
         Leaves(c, "update_write") => pc'[c] = "rerun"]_vars

\* C14: once the updates have stopped, every client that shows a session
\* comes to show, and from then on keeps showing, the row that is stored:
\* its page is fetched again without the user touching anything.
C14_PollingConvergence ==
    <>[](\A c \in Clients :
           loc[c].session # <<>> => loc[c].session[1] = checklists[loc[c].selected_id])

\* C15: the progress a view run renders is computed from the arrays it has
\* just fetched and is no column of the stored row: it is a fraction with
\* 0 <= checked_count <= total, equal to checked_count / total when the
\* session has items and to 0 when it has none, and it is 1.0 exactly when
\* the session has items and all of them are checked.
C15_Progress ==
    /\ \A id \in SessionIds : "progress" \notin DOMAIN checklists[id]
    /\ \A c \in Clients :
         loc[c].session # <<>> =>
            LET session == loc[c].session[1]
                p == loc[c].progress
                total == Len(session.items)
                checked_count == Cardinality({i \in 1..Len(session.checked) : session.checked[i]})
            IN /\ p[2] > 0
               /\ 0 <= checked_count /\ checked_count <= total
               /\ total > 0 => p[1] * total = checked_count * p[2]
               /\ total = 0 => p[1] = 0
               /\ (p[1] = p[2]) <=> (total > 0 /\ \A i \in 1..total : session.checked[i])

\* A client shows a session of MaxProgressItems items, all checked, at 1.0.
C15_Witness ==
    \E c \in Clients :
        /\ loc[c].session # <<>>
        /\ Len(loc[c].session[1].items) = MaxProgressItems
        /\ \A i \in 1..MaxProgressItems : loc[c].session[1].checked[i]
        /\ loc[c].progress[1] = loc[c].progress[2]

\* C16: under SpecRace, once both concurrent calls have finished, the stored
\* row is the row that one of the two serial orders of the calls produces
\* from the freshly created row: for the indices i and j the clients ticked,
\* c1's edit followed by c2's, or c2's followed by c1's.
C16_Serializable ==
    (\A c \in Clients : pc[c] = "rerun") =>
        LET row == checklists[1]
            fresh == start_checklist_data(row.session_name, row.template_name,
                                          row.items, row.mandatory)
        IN \E i \in 1..Len(row.items), j \in 1..Len(row.items) :
             /\ i # j
             /\ \/ row = update_checklist_edit(
                           update_checklist_edit(fresh, i, <<TRUE>>, <<>>, user_name["c1"]),
                           j, <<TRUE>>, <<>>, user_name["c2"])
                \/ row = update_checklist_edit(
                           update_checklist_edit(fresh, j, <<TRUE>>, <<>>, user_name["c2"]),
                           i, <<TRUE>>, <<>>, user_name["c1"])

\* C17: in every stored row a checked item has a non-empty user name; the
\* name a client acts under is never empty, and is "Anonymous" when the
\* sidebar's name field holds nothing but white space.
C17_CheckedHasUser ==
    /\ \A id \in SessionIds :
         \A i \in 1..Len(checklists[id].checked) :
            checklists[id].checked[i] => checklists[id].user_names[i] # <<>>
    /\ \A c \in Clients :
         pc[c] # "idle" =>
            /\ user_name[c] # <<>>
            /\ strip(name_input[c]) = <<>> => user_name[c] = Anonymous

\* The item checked by the client without a name is stored under "Anonymous".
C17_Witness ==
    \E id \in SessionIds :
        /\ checklists[id].checked = <<TRUE>>
        /\ checklists[id].user_names = <<Anonymous>>
        /\ pc["c2"] = "rerun"

\* C18: deleting a template takes two steps.  A client's flag
\* confirm_delete_<id> becomes true only in a run that ends in st.rerun()
\* and deletes nothing ("Delete"); the delete request is sent only by a
\* client whose flag for that id is already true ("Yes, Delete"); a template
\* row disappears only through such a request, and then the flag is
\* removed; when the request deletes nothing the flag becomes false; and no
\* step that turns a flag from true to false ("Cancel", the failed delete)
\* deletes a row.
C18_DeleteConfirmation ==
    [][/\ \A c \in Clients :
            /\ (pc[c] # "delete_template" /\ pc'[c] = "delete_template") =>
                  /\ confirm[c][loc'[c].t_id] = <<TRUE>>
                  /\ templates' = templates
            /\ Leaves(c, "delete_template") =>
                  LET data == {r \in templates : r.id = loc[c].t_id}
                  IN IF data # {}
                     THEN /\ templates' = templates \ data
                          /\ confirm'[c][loc[c].t_id] = <<>>
                     ELSE /\ templates' = templates
                          /\ confirm'[c][loc[c].t_id] = <<FALSE>>
            /\ \A t \in 1..MaxTemplates :
                  /\ (confirm[c][t] # <<TRUE>> /\ confirm'[c][t] = <<TRUE>>) =>
                        /\ pc[c] \in {"idle", "rerun"} /\ pc'[c] = "rerun"
                        /\ templates' = templates
                  /\ (confirm[c][t] = <<TRUE>> /\ confirm'[c][t] = <<FALSE>>) =>
                        templates' = templates
                  /\ (confirm[c][t] # <<>> /\ confirm'[c][t] = <<>>) =>
                        /\ Leaves(c, "delete_template") /\ loc[c].t_id = t
                        /\ templates' # templates
       /\ \A r \in templates :
            (\A r2 \in templates' : r2.id # r.id) =>
               \E c \in Clients : Leaves(c, "delete_template") /\ loc[c].t_id = r.id]_vars

\* One client's delete has removed the template and its flag; the other
\* client's flag for the same template is false.
C18_Witness ==
    \E c \in Clients, d \in Clients :
        /\ templates = {} /\ nextTid = 2
        /\ pc[c] = "rerun" /\ confirm[c][1] = <<>>
        /\ pc[d] = "idle" /\ confirm[d][1] = <<FALSE>>

\* The pages other than View Active Checklists leave a client at one of
\* these positions or create its confirmation flags.
OtherPagePositions == {"save_template", "save_changes", "delete_template", "insert"}

\* C19: the mode set by "Start Checklist" sticks, and the script run that
\* follows the st.rerun() of "Start Checklist" removes selected_checklist_id,
\* so that the new checklist is preselected in that run only.
C19_PreselectedOnce ==
    [][\A c \in Clients :
         /\ Leaves(c, "insert") =>
               /\ ss_mode'[c] = <<ViewActiveChecklists>>
               /\ ss_selected'[c] = <<Len(checklists')>>
         /\ ss_mode[c] # <<>> =>
               /\ ss_mode'[c] = ss_mode[c]
               /\ pc'[c] \notin OtherPagePositions
               /\ confirm'[c] = confirm[c]
         /\ (ss_selected[c] # <<>> /\ Leaves(c, "rerun")) => ss_selected'[c] = <<>>]_vars

====
